---- MODULE Spec2Model ----
(***************************************************************************)
(* Model of process_scope/shared_memory (shm_logger.cpp, shm_logger.hpp,  *)
(* process_logger.hpp): the lazily initialised ProcessLogger that lives   *)
(* in the POSIX shared-memory object "/process_scope_logger".              *)
(*                                                                         *)
(* A mapper is one copy of shm_logger.cpp's file-static state (g_block,   *)
(* g_init_flag).  Mappers live in processes; threads of a process call    *)
(* get_shm_logger / cleanup_shm_logger of the mappers of their process.   *)
(***************************************************************************)
EXTENDS Integers, FiniteSets, Sequences, TLC

\* ---------------------------------------------------------------- bounds
NumProcs   == 2
NumMappers == 3
NumThreads == 3
MaxCalls   == 2
\* runs of the os_scope daemon
NumGuards  == 3
\* concurrent callers of get_logger_via_dlsym, and calls they make in all
NumCallers  == 2
MaxResolves == 4

\* ------------------------------------------------------ program constants
\* sizeof(ShmBlock): atomic<bool> at offset 0, alignas(64) char storage[256]
SizeofShmBlock == 320

Procs   == 1..NumProcs
Mappers == 1..NumMappers
Threads == 1..NumThreads
Guards  == 1..NumGuards
NULL    == 0
\* no module: the tag of raw storage, the mapper of a thread outside a call
NoMapper == NULL

\* which process a module or a thread belongs to: the first process holds two
\* (it has more than one module and more than one thread), the others follow
\* round-robin on the remaining processes
Home(x)         == IF x <= 2 \/ NumProcs = 1 THEN 1
                   ELSE ((x - 3) % (NumProcs - 1)) + 2
ProcOfMapper(m) == Home(m)
ProcOf(t)       == Home(t)

\* base addresses mmap may return inside one address space: as many as the
\* fullest process has modules, so that every mmap can find a free one
ModulesIn(p) == Cardinality({m \in Mappers : ProcOfMapper(m) = p})
Addrs ==
    1..(CHOOSE n \in 0..NumMappers :
            /\ \E p \in Procs : ModulesIn(p) = n
            /\ \A p \in Procs : ModulesIn(p) <= n)

VARIABLES
    region,      \* the named shared-memory object (kernel state)
    alive,       \* alive[p]: process p is running
    err,         \* err[p]: how process p ended ("none" while running)
    mapped,      \* mapped[p]: base addresses at which p has the region mapped
    g_block,     \* g_block[m]: the mapper's cached ShmBlock* (NULL = nullptr)
    g_init_flag, \* g_init_flag[m]: state of the mapper's std::once_flag
    fdOpen,      \* fdOpen[m]: the descriptor from shm_open is not yet closed
    pc,          \* pc[t]: position of thread t
    cur,         \* cur[t]: the mapper whose function thread t is executing
    expected,    \* expected[t]: the local 'expected' after the compare-exchange
    ret,         \* ret[t]: the reference last returned to thread t
    calls,       \* number of get_shm_logger calls started so far
    opens,       \* opens[m]: number of shm_open calls made by mapper m
    mmaps,       \* mmaps[m]: number of mmap calls made by mapper m
    initRuns,    \* initRuns[m]: number of times init_shm_block was entered
    ctorBy,      \* ctorBy[m]: number of ProcessLogger constructions run by m
    casWinners,  \* mappers whose compare-exchange changed false -> true
    casAttempts  \* mappers that executed the compare-exchange

\* os_scope/singleton_daemon.cpp: the machine-wide guard
VARIABLES
    guard,       \* guard[g]: one run of the daemon (position, exit code, ...)
    lockFile     \* /tmp/os_scope_singleton.lock: existence and flock holders

\* tu_scope, dso_scope and thread_scope: the address-printing demos
VARIABLES
    demo,        \* which demo binary is running ("none": none of them)
    objects,     \* live Logger / ThreadLogger objects: instance and address
    tpos,        \* tpos[t]: index of thread t's next statement
    tstate,      \* tstate[t]: "unborn", "loading", "running" or "done"
    printed      \* the address lines written to std::cout so far

guardVars == <<guard, lockFile>>

scopeVars == <<demo, objects, tpos, tstate, printed>>

\* process_scope/dlsym_default: dso_common.cpp
VARIABLES
    g_cached_fn, \* the cached function pointer (NULL = nullptr)
    exported,    \* get_process_logger is in the dynamic symbol table
    dlState,     \* "running", or how the process ended
    dpc,         \* dpc[c]: position of caller c inside get_logger_via_dlsym
    sym,         \* sym[c]: the local 'sym' of resolve_get_logger
    fnp,         \* fnp[c]: the pointer resolve_get_logger returned to c
    dret,        \* dret[c]: what get_logger_via_dlsym last returned to c
    throws,      \* throws[c]: calls of c that ended in the runtime_error
    dcalls       \* calls of get_logger_via_dlsym started so far

dlVars == <<g_cached_fn, exported, dlState, dpc, sym, fnp, dret, throws,
            dcalls>>

\* state of the programs other than shared_memory
otherVars == <<guardVars, scopeVars, dlVars>>

shmVars == <<region, alive, err, mapped, g_block, g_init_flag, fdOpen, pc, cur,
             expected, ret, calls, opens, mmaps, initRuns, ctorBy, casWinners,
             casAttempts>>

vars == <<shmVars, otherVars>>

histVars == <<opens, mmaps, initRuns, ctorBy, casWinners, casAttempts>>

\* A never-constructed payload: the zero bytes of a fresh region.
RawStorage == [constructed |-> FALSE, tag |-> NoMapper]

\* ShmBlock as the kernel zero-fills it.
ZeroBlock == [initialized |-> FALSE, storage |-> RawStorage]

NoRef == [mapper |-> NoMapper, addr |-> NULL]

\* shared_memory: nothing created, mapped or called yet.
ShmIdle ==
    /\ region = [exists |-> FALSE, size |-> 0, block |-> ZeroBlock]
    /\ alive = [p \in Procs |-> TRUE]
    /\ err = [p \in Procs |-> "none"]
    /\ mapped = [p \in Procs |-> {}]
    /\ g_block = [m \in Mappers |-> NULL]
    /\ g_init_flag = [m \in Mappers |-> "idle"]
    /\ fdOpen = [m \in Mappers |-> FALSE]
    /\ pc = [t \in Threads |-> "idle"]
    /\ cur = [t \in Threads |-> NoMapper]
    /\ expected = [t \in Threads |-> FALSE]
    /\ ret = [t \in Threads |-> NoRef]
    /\ calls = 0
    /\ opens = [m \in Mappers |-> 0]
    /\ mmaps = [m \in Mappers |-> 0]
    /\ initRuns = [m \in Mappers |-> 0]
    /\ ctorBy = [m \in Mappers |-> 0]
    /\ casWinners = {}
    /\ casAttempts = {}

\* A daemon run that has not opened the lock file yet.  stale records that
\* its open found the file left behind and unlocked.
GuardStart ==
    [pc |-> "open", fd |-> FALSE, attempts |-> 0, acquired |-> FALSE,
     err |-> "none", code |-> "none", stale |-> FALSE]

\* os_scope: no daemon has started, nobody holds a lock on the file.
GuardIdle ==
    /\ guard = [g \in Guards |-> GuardStart]
    /\ lockFile = [exists |-> FALSE, holders |-> {}]

\* worker threads of the thread_scope basic demo
NWorkers == 3
MainTid  == 0
Tids     == MainTid..NWorkers
NoThread == -1

\* none of the scope demos is running
ScopeIdle ==
    /\ demo = "none"
    /\ objects = {}
    /\ tpos = [t \in Tids |-> 1]
    /\ tstate = [t \in Tids |-> "unborn"]
    /\ printed = {}

\* address of main's get_process_logger and of the g_logger it returns
get_process_logger == 1
g_logger           == 1

Callers  == 1..NumCallers
NoResult == [fn |-> NULL, logger |-> NULL]

\* dlsym_default: nothing resolved, nobody inside get_logger_via_dlsym
DlStart ==
    /\ g_cached_fn = NULL
    /\ dlState = "running"
    /\ dpc = [c \in Callers |-> "idle"]
    /\ sym = [c \in Callers |-> NULL]
    /\ fnp = [c \in Callers |-> NULL]
    /\ dret = [c \in Callers |-> NoResult]
    /\ throws = [c \in Callers |-> 0]
    /\ dcalls = 0

DlIdle == DlStart /\ exported = TRUE

Init ==
    /\ ShmIdle
    /\ GuardIdle
    /\ ScopeIdle
    /\ DlIdle

\* std::abort(): the whole process dies; its mappings disappear with it.
Abort(p, cause) ==
    /\ alive' = [alive EXCEPT ![p] = FALSE]
    /\ err' = [err EXCEPT ![p] = cause]
    /\ mapped' = [mapped EXCEPT ![p] = {}]

Running(t) == alive[ProcOf(t)]

\* A thread enters get_shm_logger() of mapper m of its own process and
\* reaches the std::call_once on that mapper's g_init_flag.
Enter(t, m) ==
    /\ Running(t)
    /\ pc[t] = "idle"
    /\ calls < MaxCalls
    /\ ProcOfMapper(m) = ProcOf(t)
    /\ cur' = [cur EXCEPT ![t] = m]
    /\ calls' = calls + 1

\* call_once without mutual exclusion: a caller also enters the guarded
\* section while another execution is in progress.
CallOnceBeginNoExclusion(t, m) ==
    /\ Enter(t, m)
    /\ g_init_flag[m] \in {"idle", "running"}
    /\ g_init_flag' = [g_init_flag EXCEPT ![m] = "running"]
    /\ initRuns' = [initRuns EXCEPT ![m] = @ + 1]
    /\ pc' = [pc EXCEPT ![t] = "shm_open"]
    /\ UNCHANGED <<region, alive, err, mapped, g_block, fdOpen, expected,
                   ret, opens, mmaps, ctorBy, casWinners, casAttempts>>
    /\ UNCHANGED otherVars

\* call_once that forgets a completed execution: a later caller runs the
\* guarded section again.
CallOnceBeginForgetful(t, m) ==
    /\ Enter(t, m)
    /\ g_init_flag[m] \in {"idle", "done"}
    /\ g_init_flag' = [g_init_flag EXCEPT ![m] = "running"]
    /\ initRuns' = [initRuns EXCEPT ![m] = @ + 1]
    /\ pc' = [pc EXCEPT ![t] = "shm_open"]
    /\ UNCHANGED <<region, alive, err, mapped, g_block, fdOpen, expected,
                   ret, opens, mmaps, ctorBy, casWinners, casAttempts>>
    /\ UNCHANGED otherVars

\* std::call_once, no execution yet: the caller becomes the active
\* execution and enters init_shm_block.
CallOnceBegin(t, m) ==
    /\ Enter(t, m)
    /\ g_init_flag[m] = "idle"
    /\ g_init_flag' = [g_init_flag EXCEPT ![m] = "running"]
    /\ initRuns' = [initRuns EXCEPT ![m] = @ + 1]
    /\ pc' = [pc EXCEPT ![t] = "shm_open"]
    /\ UNCHANGED <<region, alive, err, mapped, g_block, fdOpen, expected,
                   ret, opens, mmaps, ctorBy, casWinners, casAttempts>>
    /\ UNCHANGED otherVars

\* std::call_once, an execution in progress: the caller blocks.
CallOnceWait(t, m) ==
    /\ Enter(t, m)
    /\ g_init_flag[m] = "running"
    /\ pc' = [pc EXCEPT ![t] = "blocked"]
    /\ UNCHANGED <<region, alive, err, mapped, g_block, g_init_flag, fdOpen,
                   expected, ret, histVars>>
    /\ UNCHANGED otherVars

\* std::call_once, the execution has returned: the caller goes straight on
\* to the return statement.
CallOnceDone(t, m) ==
    /\ Enter(t, m)
    /\ g_init_flag[m] = "done"
    /\ pc' = [pc EXCEPT ![t] = "return"]
    /\ UNCHANGED <<region, alive, err, mapped, g_block, g_init_flag, fdOpen,
                   expected, ret, histVars>>
    /\ UNCHANGED otherVars

\* call_once that releases a blocked caller while the execution is still in
\* progress.
CallOncePassEarly(t) ==
    /\ Running(t)
    /\ pc[t] = "blocked"
    /\ g_init_flag[cur[t]] \in {"running", "done"}
    /\ pc' = [pc EXCEPT ![t] = "return"]
    /\ UNCHANGED <<region, alive, err, mapped, g_block, g_init_flag, fdOpen,
                   cur, expected, ret, calls, histVars>>
    /\ UNCHANGED otherVars

\* std::call_once: a blocked caller is released only once the active
\* execution has returned.
CallOncePass(t) ==
    /\ Running(t)
    /\ pc[t] = "blocked"
    /\ g_init_flag[cur[t]] = "done"
    /\ pc' = [pc EXCEPT ![t] = "return"]
    /\ UNCHANGED <<region, alive, err, mapped, g_block, g_init_flag, fdOpen,
                   cur, expected, ret, calls, histVars>>
    /\ UNCHANGED otherVars

\* shm_open whose failure is retried instead of aborting.
ShmOpenRetry(t) ==
    /\ Running(t)
    /\ pc[t] = "shm_open"
    /\ opens' = [opens EXCEPT ![cur[t]] = @ + 1]
    /\ \/ /\ region' = [region EXCEPT !.exists = TRUE]
          /\ fdOpen' = [fdOpen EXCEPT ![cur[t]] = TRUE]
          /\ pc' = [pc EXCEPT ![t] = "ftruncate"]
       \/ /\ opens[cur[t]] < 2
          /\ UNCHANGED <<region, fdOpen, pc>>
    /\ UNCHANGED <<alive, err, mapped, g_block, g_init_flag, cur, expected,
                   ret, calls, mmaps, initRuns, ctorBy, casWinners,
                   casAttempts>>
    /\ UNCHANGED otherVars

\* shm_open with O_TRUNC added: an existing object is emptied on every open.
ShmOpenTrunc(t) ==
    /\ Running(t)
    /\ pc[t] = "shm_open"
    /\ opens' = [opens EXCEPT ![cur[t]] = @ + 1]
    /\ \/ /\ region' = [exists |-> TRUE, size |-> 0, block |-> ZeroBlock]
          /\ fdOpen' = [fdOpen EXCEPT ![cur[t]] = TRUE]
          /\ pc' = [pc EXCEPT ![t] = "ftruncate"]
          /\ UNCHANGED <<alive, err, mapped>>
       \/ /\ Abort(ProcOf(t), "shm_open failed")
          /\ pc' = [pc EXCEPT ![t] = "aborted"]
          /\ UNCHANGED <<region, fdOpen>>
    /\ UNCHANGED <<g_block, g_init_flag, cur, expected, ret, calls, mmaps,
                   initRuns, ctorBy, casWinners, casAttempts>>
    /\ UNCHANGED otherVars

\* shm_open(SHM_NAME, O_CREAT | O_RDWR, 0666): opens the object, creating it
\* with size 0 when it does not exist; fd < 0 -> perror, abort.
ShmOpen(t) ==
    /\ Running(t)
    /\ pc[t] = "shm_open"
    /\ opens' = [opens EXCEPT ![cur[t]] = @ + 1]
    /\ \/ /\ region' = [region EXCEPT !.exists = TRUE]
          /\ fdOpen' = [fdOpen EXCEPT ![cur[t]] = TRUE]
          /\ pc' = [pc EXCEPT ![t] = "ftruncate"]
          /\ UNCHANGED <<alive, err, mapped>>
       \/ /\ Abort(ProcOf(t), "shm_open failed")
          /\ pc' = [pc EXCEPT ![t] = "aborted"]
          /\ UNCHANGED <<region, fdOpen>>
    /\ UNCHANGED <<g_block, g_init_flag, cur, expected, ret, calls, mmaps,
                   initRuns, ctorBy, casWinners, casAttempts>>
    /\ UNCHANGED otherVars


\* ftruncate that clears the object every time (as O_TRUNC would).
TruncatedZeroFill(r) ==
    [r EXCEPT !.size = SizeofShmBlock, !.block = ZeroBlock]

\* The effect of ftruncate(fd, sizeof(ShmBlock)) on the object: growing it
\* adds zero bytes; a size it already has leaves every byte as it is.
Truncated(r) ==
    IF r.size < SizeofShmBlock
    THEN [r EXCEPT !.size = SizeofShmBlock]
    ELSE r


\* ftruncate failure path without the close(fd).
FtruncateLeakFd(t) ==
    /\ Running(t)
    /\ pc[t] = "ftruncate"
    /\ \/ /\ region' = Truncated(region)
          /\ pc' = [pc EXCEPT ![t] = "mmap"]
          /\ UNCHANGED <<alive, err, mapped, fdOpen>>
       \/ /\ Abort(ProcOf(t), "ftruncate failed")
          /\ pc' = [pc EXCEPT ![t] = "aborted"]
          /\ UNCHANGED <<region, fdOpen>>
    /\ UNCHANGED <<g_block, g_init_flag, cur, expected, ret, calls, histVars>>
    /\ UNCHANGED otherVars

\* ftruncate(fd, sizeof(ShmBlock)); < 0 -> perror, close(fd), abort.
Ftruncate(t) ==
    /\ Running(t)
    /\ pc[t] = "ftruncate"
    /\ \/ /\ region' = Truncated(region)
          /\ pc' = [pc EXCEPT ![t] = "mmap"]
          /\ UNCHANGED <<alive, err, mapped, fdOpen>>
       \/ /\ fdOpen' = [fdOpen EXCEPT ![cur[t]] = FALSE]
          /\ Abort(ProcOf(t), "ftruncate failed")
          /\ pc' = [pc EXCEPT ![t] = "aborted"]
          /\ UNCHANGED region
    /\ UNCHANGED <<g_block, g_init_flag, cur, expected, ret, calls, histVars>>
    /\ UNCHANGED otherVars

\* mmap(nullptr, sizeof(ShmBlock), ..., MAP_SHARED, fd, 0); close(fd);
\* MAP_FAILED -> perror, abort; otherwise g_block = addr.  The kernel picks
\* a base address that is free in the caller's address space.
Mmap(t) ==
    /\ Running(t)
    /\ pc[t] = "mmap"
    /\ mmaps' = [mmaps EXCEPT ![cur[t]] = @ + 1]
    /\ fdOpen' = [fdOpen EXCEPT ![cur[t]] = FALSE]
    /\ \/ \E a \in Addrs \ mapped[ProcOf(t)] :
            /\ mapped' = [mapped EXCEPT ![ProcOf(t)] = @ \cup {a}]
            /\ g_block' = [g_block EXCEPT ![cur[t]] = a]
            /\ pc' = [pc EXCEPT ![t] = "cas"]
            /\ UNCHANGED <<alive, err>>
       \/ /\ Abort(ProcOf(t), "mmap failed")
          /\ pc' = [pc EXCEPT ![t] = "aborted"]
          /\ UNCHANGED g_block
    /\ UNCHANGED <<region, g_init_flag, cur, expected, ret, calls, opens,
                   initRuns, ctorBy, casWinners, casAttempts>>
    /\ UNCHANGED otherVars

\* The block is reachable through g_block only while that address is mapped.
Mapped(m) == g_block[m] # NULL /\ g_block[m] \in mapped[ProcOfMapper(m)]

\* Touching an address that is not mapped: SIGSEGV ends the process.
Segv(t) ==
    /\ Abort(ProcOf(t), "segv")
    /\ pc' = [pc EXCEPT ![t] = "aborted"]


\* A plain store instead of the compare-exchange: every mapper that gets
\* here sets the flag and goes on to construct.
CasBlindStore(t) ==
    /\ Running(t)
    /\ pc[t] = "cas"
    /\ IF ~Mapped(cur[t])
       THEN /\ Segv(t)
            /\ UNCHANGED <<region, casWinners, casAttempts>>
       ELSE /\ casAttempts' = casAttempts \cup {cur[t]}
            /\ region' = [region EXCEPT !.block.initialized = TRUE]
            /\ casWinners' = casWinners \cup {cur[t]}
            /\ pc' = [pc EXCEPT ![t] = "construct"]
            /\ UNCHANGED <<alive, err, mapped>>
    /\ UNCHANGED <<g_block, g_init_flag, fdOpen, cur, expected, ret, calls,
                   opens, mmaps, initRuns, ctorBy>>
    /\ UNCHANGED otherVars

\* g_block->initialized.compare_exchange_strong(expected, true) with
\* expected = false.  On failure 'expected' receives the value seen (true),
\* the else branch prints "already initialized" and init_shm_block returns,
\* which completes the call_once.
Cas(t) ==
    /\ Running(t)
    /\ pc[t] = "cas"
    /\ IF ~Mapped(cur[t])
       THEN /\ Segv(t)
            /\ UNCHANGED <<region, g_init_flag, expected, casWinners,
                           casAttempts>>
       ELSE /\ casAttempts' = casAttempts \cup {cur[t]}
            /\ UNCHANGED <<alive, err, mapped>>
            /\ IF region.block.initialized = FALSE
               THEN /\ region' = [region EXCEPT !.block.initialized = TRUE]
                    /\ casWinners' = casWinners \cup {cur[t]}
                    /\ expected' = [expected EXCEPT ![t] = FALSE]
                    /\ pc' = [pc EXCEPT ![t] = "construct"]
                    /\ UNCHANGED g_init_flag
               ELSE /\ expected' = [expected EXCEPT ![t] = TRUE]
                    /\ g_init_flag' = [g_init_flag EXCEPT ![cur[t]] = "done"]
                    /\ pc' = [pc EXCEPT ![t] = "return"]
                    /\ UNCHANGED <<region, casWinners>>
    /\ UNCHANGED <<g_block, fdOpen, cur, ret, calls, opens, mmaps, initRuns,
                   ctorBy>>
    /\ UNCHANGED otherVars

\* ProcessLogger::ProcessLogger(tag): tag_ = tag.  The tag is a pointer to
\* the string literal of the constructing module, so it names that mapper.
ProcessLogger(m) == [constructed |-> TRUE, tag |-> m]

\* new (g_block->storage) ProcessLogger("shared_memory"); then
\* init_shm_block returns and the call_once completes.
Construct(t) ==
    /\ Running(t)
    /\ pc[t] = "construct"
    /\ IF ~Mapped(cur[t])
       THEN /\ Segv(t)
            /\ UNCHANGED <<region, g_init_flag, ctorBy>>
       ELSE /\ region' = [region EXCEPT !.block.storage = ProcessLogger(cur[t])]
            /\ ctorBy' = [ctorBy EXCEPT ![cur[t]] = @ + 1]
            /\ g_init_flag' = [g_init_flag EXCEPT ![cur[t]] = "done"]
            /\ pc' = [pc EXCEPT ![t] = "return"]
            /\ UNCHANGED <<alive, err, mapped>>
    /\ UNCHANGED <<g_block, fdOpen, cur, expected, ret, calls, opens, mmaps,
                   initRuns, casWinners, casAttempts>>
    /\ UNCHANGED otherVars


\* A constructor failure that rolls the flag back before the process ends.
ConstructFailRollback(t) ==
    /\ Running(t)
    /\ pc[t] = "construct"
    /\ Abort(ProcOf(t), "constructor failed")
    /\ pc' = [pc EXCEPT ![t] = "aborted"]
    /\ region' = [region EXCEPT !.block.initialized = FALSE]
    /\ UNCHANGED <<g_block, g_init_flag, fdOpen, cur, expected, ret, calls,
                   histVars>>
    /\ UNCHANGED otherVars

\* The constructor fails: the exception leaves get_shm_logger, nothing in
\* the program catches it, std::terminate ends the process.  The flag was
\* set by the compare-exchange and nothing resets it.
ConstructFail(t) ==
    /\ Running(t)
    /\ pc[t] = "construct"
    /\ Abort(ProcOf(t), "constructor failed")
    /\ pc' = [pc EXCEPT ![t] = "aborted"]
    /\ UNCHANGED <<region, g_block, g_init_flag, fdOpen, cur, expected, ret,
                   calls, histVars>>
    /\ UNCHANGED otherVars

\* return *reinterpret_cast<ProcessLogger*>(g_block->storage);
\* the reference is g_block + offsetof(storage), recorded by its base.
\* Forming the reference through a null g_block (after cleanup_shm_logger)
\* is undefined: the build either hands out the address computed from null
\* or faults in the return statement.
Return(t) ==
    /\ Running(t)
    /\ pc[t] = "return"
    /\ \/ /\ ret' = [ret EXCEPT ![t] = [mapper |-> cur[t],
                                        addr |-> g_block[cur[t]]]]
          /\ pc' = [pc EXCEPT ![t] = "idle"]
          /\ cur' = [cur EXCEPT ![t] = NoMapper]
          /\ UNCHANGED <<alive, err, mapped>>
       \/ /\ g_block[cur[t]] = NULL
          /\ Segv(t)
          /\ UNCHANGED <<ret, cur>>
    /\ UNCHANGED <<region, g_block, g_init_flag, fdOpen, expected, calls,
                   histVars>>
    /\ UNCHANGED otherVars

\* cleanup_shm_logger with the shm_unlink line active: the name is removed.
CleanupUnlink(t, m) ==
    /\ Running(t)
    /\ pc[t] = "idle"
    /\ ProcOfMapper(m) = ProcOf(t)
    /\ g_block[m] # NULL
    /\ mapped' = [mapped EXCEPT ![ProcOf(t)] = @ \ {g_block[m]}]
    /\ g_block' = [g_block EXCEPT ![m] = NULL]
    /\ region' = [exists |-> FALSE, size |-> 0, block |-> ZeroBlock]
    /\ UNCHANGED <<alive, err, g_init_flag, fdOpen, pc, cur, expected,
                   ret, calls, histVars>>
    /\ UNCHANGED otherVars

\* cleanup_shm_logger(): munmap the cached mapping and forget it; the
\* shm_unlink is commented out, the once_flag is left as it is.  Nothing
\* orders it against a running init_shm_block of the same module.
Cleanup(t, m) ==
    /\ Running(t)
    /\ pc[t] = "idle"
    /\ ProcOfMapper(m) = ProcOf(t)
    /\ g_block[m] # NULL
    /\ mapped' = [mapped EXCEPT ![ProcOf(t)] = @ \ {g_block[m]}]
    /\ g_block' = [g_block EXCEPT ![m] = NULL]
    /\ UNCHANGED <<region, alive, err, g_init_flag, fdOpen, pc, cur, expected,
                   ret, calls, histVars>>
    /\ UNCHANGED otherVars

\* main returns 0, after its calls of get_shm_logger have returned: the
\* process ends normally; the named object stays.
ProcessExit(p) ==
    /\ alive[p]
    /\ \A t \in Threads : ProcOf(t) = p => pc[t] = "idle"
    /\ \E m \in Mappers : ProcOfMapper(m) = p /\ g_init_flag[m] = "done"
    /\ alive' = [alive EXCEPT ![p] = FALSE]
    /\ err' = [err EXCEPT ![p] = "exit 0"]
    /\ mapped' = [mapped EXCEPT ![p] = {}]
    /\ UNCHANGED <<region, g_block, g_init_flag, fdOpen, pc, cur, expected,
                   ret, calls, histVars>>
    /\ UNCHANGED otherVars

Next ==
    \/ \E t \in Threads, m \in Mappers : CallOnceBegin(t, m)
    \/ \E t \in Threads, m \in Mappers : CallOnceWait(t, m)
    \/ \E t \in Threads, m \in Mappers : CallOnceDone(t, m)
    \/ \E t \in Threads : CallOncePass(t)
    \/ \E t \in Threads : ShmOpen(t)
    \/ \E t \in Threads : Ftruncate(t)
    \/ \E t \in Threads : Mmap(t)
    \/ \E t \in Threads : Cas(t)
    \/ \E t \in Threads : Construct(t)
    \/ \E t \in Threads : ConstructFail(t)
    \/ \E t \in Threads : Return(t)
    \/ \E t \in Threads, m \in Mappers : Cleanup(t, m)
    \/ \E p \in Procs : ProcessExit(p)

Spec == Init /\ [][Next]_vars

\* Preemptive threads: a thread that can leave call_once or return is
\* eventually scheduled.
LiveSpec ==
    /\ Spec
    /\ \A t \in Threads : WF_vars(CallOncePass(t)) /\ WF_vars(Return(t))

TypeOK ==
    /\ region.exists \in BOOLEAN
    /\ region.size \in {0, SizeofShmBlock}
    /\ region.block.initialized \in BOOLEAN
    /\ g_block \in [Mappers -> {NULL} \cup Addrs]
    /\ g_init_flag \in [Mappers -> {"idle", "running", "done"}]
    /\ \A p \in Procs : mapped[p] \subseteq Addrs

\* ------------------------------------------ os_scope/singleton_daemon.cpp
\* The daemon runs start with the lock file present (left by an earlier
\* run) or absent; the shared_memory program is not running.
GuardInit ==
    /\ ShmIdle
    /\ ScopeIdle
    /\ DlIdle
    /\ guard = [g \in Guards |-> GuardStart]
    /\ \E e \in BOOLEAN : lockFile = [exists |-> e, holders |-> {}]

\* return 1 after closing whatever descriptor the run holds.
Fail(g, cause) ==
    [guard[g] EXCEPT !.pc = "exited", !.fd = FALSE, !.err = cause,
                     !.code = "1"]

\* An open failure that is reported but still returns 0.
GOpenFailZero(g) ==
    /\ guard[g].pc = "open"
    /\ \/ /\ guard' = [guard EXCEPT ![g].pc = "flock", ![g].fd = TRUE,
                                    ![g].stale = lockFile.exists
                                                 /\ lockFile.holders = {}]
          /\ lockFile' = [lockFile EXCEPT !.exists = TRUE]
       \/ /\ guard' = [guard EXCEPT ![g] = [Fail(g, "open") EXCEPT
                                               !.code = "0"]]
          /\ UNCHANGED lockFile
    /\ UNCHANGED <<shmVars, scopeVars, dlVars>>

\* open(LOCK_FILE, O_CREAT | O_RDWR, 0666); fd < 0 -> return 1.
GOpen(g) ==
    /\ guard[g].pc = "open"
    /\ \/ /\ guard' = [guard EXCEPT ![g].pc = "flock", ![g].fd = TRUE,
                                    ![g].stale = lockFile.exists
                                                 /\ lockFile.holders = {}]
          /\ lockFile' = [lockFile EXCEPT !.exists = TRUE]
       \/ /\ guard' = [guard EXCEPT ![g] = Fail(g, "open")]
          /\ UNCHANGED lockFile
    /\ UNCHANGED <<shmVars, scopeVars, dlVars>>

\* A shared lock (LOCK_SH) instead of LOCK_EX: granted next to other holders.
GFlockShared(g) ==
    /\ guard[g].pc = "flock"
    /\ \/ /\ guard' = [guard EXCEPT ![g].pc = "singleton",
                                    ![g].acquired = TRUE,
                                    ![g].attempts = @ + 1]
          /\ lockFile' = [lockFile EXCEPT !.holders = @ \cup {g}]
       \/ /\ guard' = [guard EXCEPT
                          ![g] = [Fail(g, "flock") EXCEPT
                                     !.attempts = @ + 1]]
          /\ UNCHANGED lockFile
    /\ UNCHANGED <<shmVars, scopeVars, dlVars>>

\* LOCK_EX without LOCK_NB: the call does not return while another holder
\* has the lock.
GFlockBlocking(g) ==
    /\ guard[g].pc = "flock"
    /\ lockFile.holders \ {g} = {}
    /\ \/ /\ guard' = [guard EXCEPT ![g].pc = "singleton",
                                    ![g].acquired = TRUE,
                                    ![g].attempts = @ + 1]
          /\ lockFile' = [lockFile EXCEPT !.holders = @ \cup {g}]
       \/ /\ guard' = [guard EXCEPT
                          ![g] = [Fail(g, "flock") EXCEPT
                                     !.attempts = @ + 1]]
          /\ UNCHANGED lockFile
    /\ UNCHANGED <<shmVars, scopeVars, dlVars>>

\* The presence of the file taken as the lock (pid-file style): a run whose
\* open found the file already there is turned away.
GFlockFilePresence(g) ==
    /\ guard[g].pc = "flock"
    /\ \/ /\ lockFile.holders \ {g} = {}
          /\ ~guard[g].stale
          /\ guard' = [guard EXCEPT ![g].pc = "singleton",
                                    ![g].acquired = TRUE,
                                    ![g].attempts = @ + 1]
          /\ lockFile' = [lockFile EXCEPT !.holders = @ \cup {g}]
       \/ /\ lockFile.holders \ {g} # {} \/ guard[g].stale
          /\ guard' = [guard EXCEPT
                          ![g] = [Fail(g, "EWOULDBLOCK") EXCEPT
                                     !.attempts = @ + 1]]
          /\ UNCHANGED lockFile
       \/ /\ guard' = [guard EXCEPT
                          ![g] = [Fail(g, "flock") EXCEPT
                                     !.attempts = @ + 1]]
          /\ UNCHANGED lockFile
    /\ UNCHANGED <<shmVars, scopeVars, dlVars>>

\* flock(fd, LOCK_EX | LOCK_NB): granted when no other open file
\* description holds a lock; EWOULDBLOCK at once when one does; any other
\* error otherwise.  On failure: message, close(fd), return 1.
GFlock(g) ==
    /\ guard[g].pc = "flock"
    /\ \/ /\ lockFile.holders \ {g} = {}
          /\ guard' = [guard EXCEPT ![g].pc = "singleton",
                                    ![g].acquired = TRUE,
                                    ![g].attempts = @ + 1]
          /\ lockFile' = [lockFile EXCEPT !.holders = @ \cup {g}]
       \/ /\ lockFile.holders \ {g} # {}
          /\ guard' = [guard EXCEPT
                          ![g] = [Fail(g, "EWOULDBLOCK") EXCEPT
                                     !.attempts = @ + 1]]
          /\ UNCHANGED lockFile
       \/ /\ guard' = [guard EXCEPT
                          ![g] = [Fail(g, "flock") EXCEPT
                                     !.attempts = @ + 1]]
          /\ UNCHANGED lockFile
    /\ UNCHANGED <<shmVars, scopeVars, dlVars>>

\* Leaving the singleton section without giving the lock back.
GCloseKeepLock(g) ==
    /\ guard[g].pc = "singleton"
    /\ guard' = [guard EXCEPT ![g].pc = "closed", ![g].fd = FALSE]
    /\ UNCHANGED <<lockFile, shmVars, scopeVars, dlVars>>

\* The singleton section ends (std::cin.get() returns) and close(fd)
\* releases the lock.
GClose(g) ==
    /\ guard[g].pc = "singleton"
    /\ guard' = [guard EXCEPT ![g].pc = "closed", ![g].fd = FALSE]
    /\ lockFile' = [lockFile EXCEPT !.holders = @ \ {g}]
    /\ UNCHANGED <<shmVars, scopeVars, dlVars>>

\* return 0.
GReturn(g) ==
    /\ guard[g].pc = "closed"
    /\ guard' = [guard EXCEPT ![g].pc = "exited", ![g].code = "0"]
    /\ UNCHANGED <<lockFile, shmVars, scopeVars, dlVars>>

\* The process is ended from outside while it runs: the kernel closes its
\* descriptor, which releases the lock ("or process exits").
GKill(g) ==
    /\ guard[g].pc \in {"flock", "singleton", "closed"}
    /\ guard' = [guard EXCEPT ![g].pc = "exited", ![g].fd = FALSE,
                              ![g].code = "SIGKILL"]
    /\ lockFile' = [lockFile EXCEPT !.holders = @ \ {g}]
    /\ UNCHANGED <<shmVars, scopeVars, dlVars>>

GuardNext ==
    \/ \E g \in Guards : GOpen(g)
    \/ \E g \in Guards : GFlock(g)
    \/ \E g \in Guards : GClose(g)
    \/ \E g \in Guards : GReturn(g)
    \/ \E g \in Guards : GKill(g)

GuardSpec == GuardInit /\ [][GuardNext]_vars

\* A started daemon gets to make its flock call; nothing obliges a holder
\* to leave the singleton section (it waits for the user).
GuardLive == GuardSpec /\ \A g \in Guards : WF_vars(GFlock(g))

\* the runs inside the singleton section: past flock, before close(fd)
InSingleton == {g \in Guards : guard[g].pc = "singleton"}

\* ------------------------------------------- tu_scope / dso_scope / thread_scope
Demos == {"tu", "dso", "thread_basic", "thread_mixed"}

\* the singleton variables of the demos that are not plain inline variables
InternalVars    == {"g_logger_static"}                \* static Logger
ThreadLocalVars == {"g_thread_logger"}                \* inline thread_local

\* shared libraries compiled with -fvisibility=hidden
HiddenModules == {"plugin_a", "plugin_b"}

\* A statement that prints the address of `var` from translation unit `tu`
\* linked into `module`.
Site(ctx, var, tu, module) ==
    [op |-> "call", ctx |-> ctx, var |-> var, tu |-> tu, module |-> module,
     arg |-> NoThread]

SpawnOp(w) ==
    [op |-> "spawn", ctx |-> "", var |-> "", tu |-> "", module |-> "",
     arg |-> w]

JoinOp(w) ==
    [op |-> "join", ctx |-> "", var |-> "", tu |-> "", module |-> "",
     arg |-> w]

\* tu_scope: main calls user_a_report() and user_b_report().
user_a_report ==
    << Site("user_a static", "g_logger_static", "user_a.cpp", "tu_scope_demo"),
       Site("user_a inline", "g_logger_inline", "user_a.cpp", "tu_scope_demo") >>

user_b_report ==
    << Site("user_b static", "g_logger_static", "user_b.cpp", "tu_scope_demo"),
       Site("user_b inline", "g_logger_inline", "user_b.cpp", "tu_scope_demo") >>

TuMain == user_a_report \o user_b_report

\* dso_scope: main prints &get_logger(), then each plugin does.
plugin_a_entry == Site("plugin_a", "g_logger", "libplugin_a.cpp", "plugin_a")
plugin_b_entry == Site("plugin_b", "g_logger", "libplugin_b.cpp", "plugin_b")

DsoMain ==
    << Site("main", "g_logger", "main.cpp", "dso_scope_demo"),
       plugin_a_entry, plugin_b_entry >>

\* thread_scope basic demo: main logs, creates the workers, joins them.
worker ==
    << Site("worker", "g_thread_logger", "basic_demo.cpp",
            "thread_basic_demo") >>

BasicMain ==
    << Site("main", "g_thread_logger", "basic_demo.cpp", "thread_basic_demo") >>
    \o [i \in 1..NWorkers |-> SpawnOp(i)]
    \o [i \in 1..NWorkers |-> JoinOp(i)]

\* thread_scope mixed demo: the library function logs through the same
\* header's get_thread_logger().
call_logger_in_lib ==
    Site("lib_worker", "g_thread_logger", "libworker.cpp", "thread_worker")

test_cross_dso ==
    << Site("main_exe", "g_thread_logger", "mixed_demo.cpp",
            "thread_mixed_demo"),
       call_logger_in_lib >>

MixedMain == test_cross_dso \o << SpawnOp(1), JoinOp(1) >>

\* the statements thread t executes in demo d
Script(d, t) ==
    CASE d = "tu"           -> IF t = MainTid THEN TuMain ELSE << >>
      [] d = "dso"          -> IF t = MainTid THEN DsoMain ELSE << >>
      [] d = "thread_basic" -> IF t = MainTid THEN BasicMain ELSE worker
      [] d = "thread_mixed" -> IF t = MainTid THEN MixedMain
                               ELSE IF t = 1 THEN test_cross_dso ELSE << >>
      [] OTHER              -> << >>

\* UnitPerModule: every module keeps its own copy of an inline variable.
UnitPerModule(site) ==
    IF site.var \in InternalVars THEN site.tu ELSE site.module

\* UnitPerTU: an inline variable treated like a static one.
UnitPerTU(site) == site.tu

\* UnitMerged: hidden visibility ignored, the dynamic linker merges.
UnitMerged(site) ==
    IF site.var \in InternalVars THEN site.tu ELSE "program"

\* Where the definition of site.var that the site binds to lives: internal
\* linkage gives one per translation unit; an inline variable is one per
\* module when the module hides its symbols, and is otherwise merged by the
\* static and dynamic linker into one for the program.
Unit(site) ==
    IF site.var \in InternalVars THEN site.tu
    ELSE IF site.module \in HiddenModules THEN site.module
    ELSE "program"

\* The object a site refers to when thread t executes it.
KeyOf(site, t) ==
    [var    |-> site.var,
     unit   |-> Unit(site),
     thread |-> IF site.var \in ThreadLocalVars THEN t ELSE NoThread]

\* as many addresses as objects can be alive at once
ScopeAddrs == 1..(NWorkers + 1)

Live(k)   == \E o \in objects : o.key = k
AddrOf(k) == (CHOOSE o \in objects : o.key = k).addr
FreeAddrs == ScopeAddrs \ {o.addr : o \in objects}

\* objects with static storage duration that demo d defines
StaticKeys(d) ==
    {KeyOf(Script(d, MainTid)[i], MainTid) :
        i \in {j \in DOMAIN Script(d, MainTid) :
                  /\ Script(d, MainTid)[j].op = "call"
                  /\ Script(d, MainTid)[j].var \notin ThreadLocalVars}}

ScopeInit ==
    /\ ShmIdle
    /\ GuardIdle
    /\ DlIdle
    /\ demo \in Demos
    /\ objects = {}
    /\ tpos = [t \in Tids |-> 1]
    /\ tstate = [t \in Tids |-> IF t = MainTid THEN "loading" ELSE "unborn"]
    /\ printed = {}

\* Program load: the Logger constructor runs for one object of static
\* storage duration, at an address no live object occupies.
StaticInit(k) ==
    /\ tstate[MainTid] = "loading"
    /\ k \in StaticKeys(demo)
    /\ ~Live(k)
    /\ \E a \in FreeAddrs : objects' = objects \cup {[key |-> k, addr |-> a]}
    /\ UNCHANGED <<demo, tpos, tstate, printed>>
    /\ UNCHANGED <<shmVars, guardVars, dlVars>>

\* All static objects are constructed; main() is entered.
EnterMain ==
    /\ tstate[MainTid] = "loading"
    /\ \A k \in StaticKeys(demo) : Live(k)
    /\ tstate' = [tstate EXCEPT ![MainTid] = "running"]
    /\ UNCHANGED <<demo, objects, tpos, printed>>
    /\ UNCHANGED <<shmVars, guardVars, dlVars>>

Current(t) == Script(demo, t)[tpos[t]]

AtOp(t, op) ==
    /\ tstate[t] = "running"
    /\ tpos[t] \in DOMAIN Script(demo, t)
    /\ Current(t).op = op

\* get_logger...() / get_thread_logger(): the thread's first use of a
\* thread_local constructs it in storage free at that moment; the address
\* of the object is printed.
GetLogger(t) ==
    /\ AtOp(t, "call")
    /\ LET site == Current(t)
           k    == KeyOf(site, t)
       IN  \E a \in (IF Live(k) THEN {AddrOf(k)} ELSE FreeAddrs) :
              /\ objects' = objects \cup {[key |-> k, addr |-> a]}
              /\ printed' = printed \cup
                   {[ctx |-> site.ctx, thread |-> t, addr |-> a]}
    /\ tpos' = [tpos EXCEPT ![t] = @ + 1]
    /\ UNCHANGED <<demo, tstate>>
    /\ UNCHANGED <<shmVars, guardVars, dlVars>>

\* std::thread construction: the new thread starts running.
SpawnThread(t) ==
    /\ AtOp(t, "spawn")
    /\ tstate' = [tstate EXCEPT ![Current(t).arg] = "running"]
    /\ tpos' = [tpos EXCEPT ![t] = @ + 1]
    /\ UNCHANGED <<demo, objects, printed>>
    /\ UNCHANGED <<shmVars, guardVars, dlVars>>

\* The thread function returns: the thread's thread_local objects are
\* destroyed and their storage is released.
ThreadExit(t) ==
    /\ t # MainTid
    /\ tstate[t] = "running"
    /\ tpos[t] \notin DOMAIN Script(demo, t)
    /\ tstate' = [tstate EXCEPT ![t] = "done"]
    /\ objects' = {o \in objects : o.key.thread # t}
    /\ UNCHANGED <<demo, tpos, printed>>
    /\ UNCHANGED <<shmVars, guardVars, dlVars>>

\* t.join() returns once the joined thread has finished.
JoinThread(t) ==
    /\ AtOp(t, "join")
    /\ tstate[Current(t).arg] = "done"
    /\ tpos' = [tpos EXCEPT ![t] = @ + 1]
    /\ UNCHANGED <<demo, objects, tstate, printed>>
    /\ UNCHANGED <<shmVars, guardVars, dlVars>>

\* return 0 from main: every remaining object is destroyed.
MainReturn ==
    /\ tstate[MainTid] = "running"
    /\ tpos[MainTid] \notin DOMAIN Script(demo, MainTid)
    /\ tstate' = [tstate EXCEPT ![MainTid] = "done"]
    /\ objects' = {}
    /\ UNCHANGED <<demo, tpos, printed>>
    /\ UNCHANGED <<shmVars, guardVars, dlVars>>

ScopeNext ==
    \/ \E k \in StaticKeys(demo) : StaticInit(k)
    \/ EnterMain
    \/ \E t \in Tids : GetLogger(t)
    \/ \E t \in Tids : SpawnThread(t)
    \/ \E t \in Tids : ThreadExit(t)
    \/ \E t \in Tids : JoinThread(t)
    \/ MainReturn

ScopeSpec == ScopeInit /\ [][ScopeNext]_vars

\* the addresses printed for context c
AddrsAt(c)     == {l.addr : l \in {x \in printed : x.ctx = c}}
Finished       == tstate[MainTid] = "done"

\* ------------------------------------------- process_scope/dlsym_default
DlInit ==
    /\ ShmIdle
    /\ GuardIdle
    /\ ScopeIdle
    /\ DlStart
    /\ exported \in BOOLEAN

DlRunning == dlState = "running"

\* get_logger_via_dlsym() -> resolve_get_logger(): if (g_cached_fn) return
\* g_cached_fn;
ResolveCached(c) ==
    /\ DlRunning
    /\ dpc[c] = "idle"
    /\ dcalls < MaxResolves
    /\ g_cached_fn # NULL
    /\ dcalls' = dcalls + 1
    /\ fnp' = [fnp EXCEPT ![c] = g_cached_fn]
    /\ dpc' = [dpc EXCEPT ![c] = "call"]
    /\ UNCHANGED <<g_cached_fn, exported, dlState, sym, dret, throws>>
    /\ UNCHANGED <<shmVars, guardVars, scopeVars>>

\* The cache is empty: the caller goes on to the lookup.  The read is not
\* synchronized with any other caller's store.
ResolveMiss(c) ==
    /\ DlRunning
    /\ dpc[c] = "idle"
    /\ dcalls < MaxResolves
    /\ g_cached_fn = NULL
    /\ dcalls' = dcalls + 1
    /\ dpc' = [dpc EXCEPT ![c] = "dlsym"]
    /\ UNCHANGED <<g_cached_fn, exported, dlState, sym, fnp, dret, throws>>
    /\ UNCHANGED <<shmVars, guardVars, scopeVars>>

\* A failed lookup that is not reported: the null result is stored and
\* returned like any other.
DlsymNoThrow(c) ==
    /\ DlRunning
    /\ dpc[c] = "dlsym"
    /\ sym' = [sym EXCEPT ![c] = IF exported THEN get_process_logger
                                             ELSE NULL]
    /\ dpc' = [dpc EXCEPT ![c] = "store"]
    /\ UNCHANGED <<dlState, throws>>
    /\ UNCHANGED <<g_cached_fn, exported, fnp, dret, dcalls>>
    /\ UNCHANGED <<shmVars, guardVars, scopeVars>>

\* void* sym = dlsym(RTLD_DEFAULT, "get_process_logger"); if (!sym) throw
\* std::runtime_error.  The exception leaves get_logger_via_dlsym; a caller
\* that catches it carries on, otherwise std::terminate ends the process.
Dlsym(c) ==
    /\ DlRunning
    /\ dpc[c] = "dlsym"
    /\ IF exported
       THEN /\ sym' = [sym EXCEPT ![c] = get_process_logger]
            /\ dpc' = [dpc EXCEPT ![c] = "store"]
            /\ UNCHANGED <<dlState, throws>>
       ELSE /\ sym' = [sym EXCEPT ![c] = NULL]
            /\ \/ /\ dpc' = [dpc EXCEPT ![c] = "idle"]
                  /\ throws' = [throws EXCEPT ![c] = @ + 1]
                  /\ UNCHANGED dlState
               \/ /\ dlState' = "terminate"
                  /\ UNCHANGED <<dpc, throws>>
    /\ UNCHANGED <<g_cached_fn, exported, fnp, dret, dcalls>>
    /\ UNCHANGED <<shmVars, guardVars, scopeVars>>

\* g_cached_fn = reinterpret_cast<GetLoggerFn>(sym); return g_cached_fn;
StoreFn(c) ==
    /\ DlRunning
    /\ dpc[c] = "store"
    /\ g_cached_fn' = sym[c]
    /\ fnp' = [fnp EXCEPT ![c] = sym[c]]
    /\ dpc' = [dpc EXCEPT ![c] = "call"]
    /\ UNCHANGED <<exported, dlState, sym, dret, throws, dcalls>>
    /\ UNCHANGED <<shmVars, guardVars, scopeVars>>

\* return resolve_get_logger()(): the pointer is called; get_process_logger
\* returns main's g_logger.  A call through a null pointer faults.
CallFn(c) ==
    /\ DlRunning
    /\ dpc[c] = "call"
    /\ IF fnp[c] = get_process_logger
       THEN /\ dret' = [dret EXCEPT ![c] = [fn |-> fnp[c],
                                           logger |-> g_logger]]
            /\ dpc' = [dpc EXCEPT ![c] = "idle"]
            /\ UNCHANGED dlState
       ELSE /\ dlState' = "segv"
            /\ UNCHANGED <<dret, dpc>>
    /\ UNCHANGED <<g_cached_fn, exported, sym, fnp, throws, dcalls>>
    /\ UNCHANGED <<shmVars, guardVars, scopeVars>>

DlNext ==
    \/ \E c \in Callers : ResolveCached(c)
    \/ \E c \in Callers : ResolveMiss(c)
    \/ \E c \in Callers : Dlsym(c)
    \/ \E c \in Callers : StoreFn(c)
    \/ \E c \in Callers : CallFn(c)

DlSpec == DlInit /\ [][DlNext]_vars

\* ------------------------------------------------------------ observations
\* The reference held by t still points into a live mapping of its process.
ValidRef(t) ==
    /\ ret[t].mapper # NoMapper
    /\ Running(t)
    /\ ret[t].addr \in mapped[ProcOf(t)]

\* What t reads through its reference: every mapping is MAP_SHARED of the
\* one named object, so it is the object's storage.
Observed(t) == region.block.storage

CtorTotal == Cardinality({m \in Mappers : ctorBy[m] > 0})

\* C1: within one mapper, whatever the number and interleaving of the
\* threads calling get_shm_logger, init_shm_block is entered at most once,
\* the mapper constructs at most once, and when it is the mapper that found
\* the region fresh (it won the flag) and its guarded section has returned,
\* it has constructed the ProcessLogger exactly once.
C1_GuardedSectionOnce ==
    \A m \in Mappers :
        /\ initRuns[m] <= 1
        /\ ctorBy[m] <= 1
        /\ (m \in casWinners /\ g_init_flag[m] = "done") => ctorBy[m] = 1
        /\ \A t \in Threads :
              (m \in casWinners /\ pc[t] = "return" /\ cur[t] = m)
                  => ctorBy[m] = 1

C1_Witness ==
    \E t1, t2 \in Threads : \E m \in Mappers :
        /\ t1 # t2
        /\ ret[t1].mapper = m
        /\ pc[t2] = "return" /\ cur[t2] = m
        /\ m \in casWinners
        /\ initRuns[m] = 1 /\ ctorBy[m] = 1

\* C2: over all mappers of the region at most one performs the flag
\* transition false -> true, exactly one once any mapper has executed the
\* compare-exchange; only that mapper constructs, and the region sees one
\* construction in total once the winner's guarded section has returned.
C2_SingleTransition ==
    /\ Cardinality(casWinners) <= 1
    /\ casAttempts # {} => Cardinality(casWinners) = 1
    /\ \A m \in Mappers : ctorBy[m] > 0 => m \in casWinners
    /\ \A m \in Mappers : ctorBy[m] <= 1
    /\ CtorTotal <= 1
    /\ \A m \in casWinners : g_init_flag[m] = "done" => CtorTotal = 1

C2_Witness ==
    \E a, b \in Mappers :
        /\ a # b
        /\ ProcOfMapper(a) # ProcOfMapper(b)
        /\ {a, b} \subseteq casAttempts
        /\ casWinners = {a}
        /\ g_init_flag[a] = "done" /\ g_init_flag[b] = "done"
        /\ ctorBy[a] = 1 /\ ctorBy[b] = 0

\* C3 (as claimed): a thread that saw the flag true (its compare-exchange
\* failed and wrote true into 'expected') sees a fully constructed payload.
C3_FlagImpliesConstructed ==
    \A t \in Threads :
        (Running(t) /\ expected[t]) => region.block.storage.constructed

\* C4: once mapper a has constructed the payload, no other mapper's
\* constructor has run or ever runs, the storage keeps a's tag in every
\* later state, and every thread holding a live reference reads a's tag.
C4_FirstTagWins ==
    /\ [](\A a \in Mappers :
            ctorBy[a] = 1 =>
                /\ region.block.storage = ProcessLogger(a)
                /\ \A b \in Mappers \ {a} : ctorBy[b] = 0
                /\ \A t \in Threads : ValidRef(t) => Observed(t).tag = a)
    /\ [][region.block.storage.constructed
            => region'.block.storage = region.block.storage]_vars

C4_Witness ==
    \E a, b \in Mappers : \E t \in Threads :
        /\ a # b
        /\ ctorBy[a] = 1
        /\ b \in casAttempts
        /\ ret[t].mapper = b
        /\ expected[t]
        /\ ValidRef(t)
        /\ Observed(t).tag = a

\* C5 (as claimed): two threads that hold live references obtained from two
\* different mappers hold the same address and read the same content.
C5_SameAddress ==
    \A t1, t2 \in Threads :
        (ValidRef(t1) /\ ValidRef(t2) /\ ret[t1].mapper # ret[t2].mapper)
            => /\ ret[t1].addr = ret[t2].addr
               /\ Observed(t1) = Observed(t2)

\* C6: a mapper calls shm_open and mmap at most once; all references it
\* has returned from a mapping are the same, and they are its cached
\* g_block for as long as the mapper has not dropped it.
C6_AcquireIdempotent ==
    \A m \in Mappers :
        /\ opens[m] <= 1
        /\ mmaps[m] <= 1
        /\ \A t1, t2 \in Threads :
              (/\ ret[t1].mapper = m /\ ret[t2].mapper = m
               /\ ret[t1].addr # NULL /\ ret[t2].addr # NULL)
                  => ret[t1].addr = ret[t2].addr
        /\ \A t \in Threads :
              (ret[t].mapper = m /\ ret[t].addr # NULL /\ g_block[m] # NULL)
                  => ret[t].addr = g_block[m]

C6_Witness ==
    \E t1, t2 \in Threads : \E m \in Mappers :
        /\ t1 # t2
        /\ ret[t1].mapper = m /\ ret[t2].mapper = m
        /\ ret[t1].addr = g_block[m] /\ ret[t2].addr = g_block[m]
        /\ g_block[m] # NULL
        /\ calls = MaxCalls
        /\ opens[m] = 1 /\ mmaps[m] = 1

\* C7: when shm_open fails the process is dead with that error; the failing
\* mapper has no mapping, opened once and never again, never tried to size,
\* map, flip the flag or construct; the failing step leaves the region and
\* every g_block untouched.
C7_OpenFailureFatal ==
    /\ [](\A t \in Threads :
            /\ pc[t] = "shm_open" => opens[cur[t]] = 0
            /\ (pc[t] = "aborted" /\ err[ProcOf(t)] = "shm_open failed") =>
                  /\ ~alive[ProcOf(t)]
                  /\ g_block[cur[t]] = NULL
                  /\ mapped[ProcOf(t)] = {}
                  /\ ~fdOpen[cur[t]]
                  /\ opens[cur[t]] = 1 /\ mmaps[cur[t]] = 0
                  /\ cur[t] \notin casAttempts
                  /\ ctorBy[cur[t]] = 0)
    /\ [][\A t \in Threads :
            (pc[t] = "shm_open" /\ pc'[t] = "aborted")
                => region' = region /\ g_block' = g_block]_vars

C7_Witness ==
    \E t \in Threads :
        /\ pc[t] = "aborted"
        /\ err[ProcOf(t)] = "shm_open failed"
        /\ ~region.exists

\* C8: when ftruncate or mmap fails the process is dead with that error,
\* the descriptor has been closed, the mapper has no mapping and never
\* executed the compare-exchange or the constructor, and neither call is
\* made a second time.
C8_LateFailureFatal ==
    \A t \in Threads :
        /\ pc[t] = "ftruncate" => (opens[cur[t]] = 1 /\ mmaps[cur[t]] = 0)
        /\ pc[t] = "mmap" => mmaps[cur[t]] = 0
        /\ (/\ pc[t] = "aborted"
            /\ err[ProcOf(t)] \in {"ftruncate failed", "mmap failed"}) =>
              /\ ~alive[ProcOf(t)]
              /\ ~fdOpen[cur[t]]
              /\ g_block[cur[t]] = NULL
              /\ opens[cur[t]] = 1
              /\ mmaps[cur[t]] =
                    (IF err[ProcOf(t)] = "mmap failed" THEN 1 ELSE 0)
              /\ cur[t] \notin casAttempts
              /\ ctorBy[cur[t]] = 0

C8_Witness ==
    \E t \in Threads :
        /\ pc[t] = "aborted"
        /\ err[ProcOf(t)] = "mmap failed"
        /\ region.exists /\ region.size = SizeofShmBlock
        /\ ~region.block.initialized

\* C9: after a constructor failure the flag is true and stays true, the
\* storage is never constructed, no mapper constructs or is about to, and
\* every compare-exchange executed afterwards fails.
C9_FailedCtorPoisons ==
    /\ []((\E p \in Procs : err[p] = "constructor failed") =>
            /\ region.block.initialized
            /\ region.block.storage = RawStorage
            /\ CtorTotal = 0
            /\ Cardinality(casWinners) = 1
            /\ \A t \in Threads : Running(t) => pc[t] # "construct")
    /\ [][(\E p \in Procs : err[p] = "constructor failed")
            => (casWinners' = casWinners /\ region' = region)]_vars

C9_Witness ==
    \E t \in Threads : \E p \in Procs :
        /\ err[p] = "constructor failed"
        /\ ProcOf(t) # p
        /\ expected[t]
        /\ ValidRef(t)
        /\ Observed(t) = RawStorage

\* C10: no thread is past call_once of a mapper (returning or returned)
\* unless that mapper's guarded section has completed, a blocked caller
\* never finds the guarded section entered a second time, and a caller
\* blocked at call_once of a mapper whose guarded section has completed
\* eventually returns from get_shm_logger (or its process has ended).
C10_BlockedUntilDone ==
    /\ [](\A t \in Threads :
            /\ (pc[t] = "return") => g_init_flag[cur[t]] = "done"
            /\ (ret[t].mapper # NoMapper) => g_init_flag[ret[t].mapper] = "done"
            /\ (pc[t] = "blocked") => initRuns[cur[t]] = 1)
    /\ \A t \in Threads :
          (pc[t] = "blocked" /\ g_init_flag[cur[t]] = "done")
              ~> (pc[t] = "idle" \/ ~Running(t))

C10_Witness ==
    \E t1, t2 \in Threads :
        /\ t1 # t2
        /\ pc[t1] = "blocked" /\ pc[t2] = "idle"
        /\ cur[t1] = ret[t2].mapper
        /\ g_init_flag[cur[t1]] = "done"
        /\ initRuns[cur[t1]] = 1

\* C11: at most one daemon run is inside the singleton section (past its
\* flock, before its close(fd)), and the runs holding the lock are exactly
\* the runs in that section.
C11_GuardMutex ==
    /\ Cardinality(InSingleton) <= 1
    /\ lockFile.holders = InSingleton

C11_Witness ==
    \E g, h \in Guards :
        /\ g # h
        /\ guard[g].pc = "singleton"
        /\ guard[h].attempts = 1
        /\ guard[h].pc = "exited"

\* C12: a run makes one flock attempt and no second one; an attempt that
\* meets a holder ends the run with EWOULDBLOCK and exit code 1; and a run
\* that has reached its flock call always gets past it, whether or not the
\* holder ever releases.
C12_NonBlocking ==
    /\ [](\A g \in Guards :
            /\ guard[g].attempts <= 1
            /\ guard[g].pc = "flock" => guard[g].attempts = 0
            /\ guard[g].err = "EWOULDBLOCK" =>
                  (guard[g].pc = "exited" /\ guard[g].code = "1"
                   /\ guard[g].attempts = 1))
    /\ \A g \in Guards :
          (guard[g].pc = "flock") ~> (guard[g].pc \in {"singleton", "exited"})

C12_Witness ==
    \E g, h \in Guards :
        /\ g # h
        /\ guard[g].pc = "singleton"
        /\ guard[h].pc = "exited"
        /\ guard[h].err = "EWOULDBLOCK"
        /\ guard[h].code = "1"

\* C13: a run that returned 0 acquired the lock; a run that acquired the
\* lock and returned from main returned 0; every failure (open,
\* EWOULDBLOCK, other flock error) ends with exit code 1 and without the
\* run ever having been in the singleton section.
C13_ExitCodes ==
    \A g \in Guards :
        /\ guard[g].code = "0" => guard[g].acquired
        /\ guard[g].code = "1" =>
              (~guard[g].acquired
               /\ guard[g].err \in {"open", "EWOULDBLOCK", "flock"})
        /\ guard[g].err # "none" =>
              (guard[g].pc = "exited" /\ guard[g].code = "1"
               /\ ~guard[g].acquired)
        /\ (guard[g].acquired /\ guard[g].pc = "exited"
            /\ guard[g].code # "SIGKILL") => guard[g].code = "0"
        /\ guard[g].pc \in {"singleton", "closed"} =>
              (guard[g].acquired /\ guard[g].err = "none")

C13_Witness ==
    \E f, g, h \in Guards :
        /\ guard[f].code = "0"
        /\ guard[g].code = "1" /\ guard[g].err = "EWOULDBLOCK"
        /\ guard[h].code = "1" /\ guard[h].err \in {"open", "flock"}

\* C14: the lock is held only by runs that are inside the singleton
\* section, so it is free as soon as the holder has closed its descriptor
\* or ended; and a flock attempt made while no run is in the singleton
\* section is never turned away as "already running".
C14_ReleasedWhenGone ==
    /\ [](\A g \in lockFile.holders :
            guard[g].pc = "singleton" /\ guard[g].fd)
    /\ [][\A g \in Guards :
            (guard[g].pc = "flock" /\ guard'[g].pc # "flock"
             /\ InSingleton \ {g} = {})
                => guard'[g].err # "EWOULDBLOCK"]_vars

C14_Witness ==
    \E g, h \in Guards :
        /\ g # h
        /\ guard[g].pc = "exited" /\ guard[g].acquired
        /\ guard[h].pc = "singleton"

\* C15: no step removes the region's name, shrinks it, clears its flag or
\* touches a constructed payload; a step in which a module drops its cached
\* mapping (cleanup_shm_logger) leaves the region, every other module's
\* pointer, every once_flag and every other process's mappings as they
\* were, and so does a process ending with exit code 0.
C15_RegionLeaks ==
    [][/\ region.exists => (region'.exists /\ region'.size >= region.size)
       /\ region.block.initialized => region'.block.initialized
       /\ region.block.storage.constructed =>
             region'.block.storage = region.block.storage
       /\ \A m \in Mappers :
             (g_block[m] # NULL /\ g_block'[m] = NULL) =>
                /\ region' = region
                /\ g_init_flag' = g_init_flag
                /\ \A n \in Mappers \ {m} : g_block'[n] = g_block[n]
                /\ mapped'[ProcOfMapper(m)] =
                      mapped[ProcOfMapper(m)] \ {g_block[m]}
                /\ \A q \in Procs \ {ProcOfMapper(m)} :
                      mapped'[q] = mapped[q]
       /\ \A p \in Procs :
             (alive[p] /\ ~alive'[p] /\ err'[p] = "exit 0") =>
                (region' = region /\ g_block' = g_block)
    ]_vars

C15_Witness ==
    /\ \A p \in Procs : ~alive[p]
    /\ \E p \in Procs : err[p] = "exit 0"
    /\ region.exists
    /\ region.size = SizeofShmBlock
    /\ region.block.initialized
    /\ region.block.storage.constructed
    /\ \E m \in Mappers : g_block[m] = NULL /\ g_init_flag[m] = "done"

\* C16 (as claimed, shared_memory variant): within one process exactly one
\* ProcessLogger has been constructed once a caller holds a reference, and
\* all callers of the process (main, libA, libB, libC) hold the same
\* address and read the same tag.
C16_OneInstancePerProcess ==
    \A p \in Procs :
        LET holders == {t \in Threads : ProcOf(t) = p /\ ValidRef(t)}
        IN  /\ \A t1, t2 \in holders :
                  /\ ret[t1].addr = ret[t2].addr
                  /\ Observed(t1).tag = Observed(t2).tag
            /\ holders # {} =>
                  Cardinality({m \in Mappers : ProcOfMapper(m) = p
                                                /\ ctorBy[m] > 0}) = 1

\* C17 (as claimed): in the basic thread demo any two lines printed by
\* different threads show different addresses, whatever the scheduling of
\* the workers, so a finished run shows NWorkers + 1 different addresses.
C17_DistinctPerThread ==
    demo = "thread_basic" =>
        /\ \A l1, l2 \in printed :
              l1.thread # l2.thread => l1.addr # l2.addr
        /\ Finished => Cardinality({l.addr : l \in printed}) = NWorkers + 1

\* C18: in the mixed demo the executable's call and the library's call on
\* one thread print the same address and bind to the same object, and
\* calls on different threads print different addresses.
C18_PerThreadGlobal ==
    demo = "thread_mixed" =>
        /\ \A l1, l2 \in printed :
              (l1.thread = l2.thread) <=> (l1.addr = l2.addr)
        /\ \A t \in Tids :
              Cardinality({o \in objects : o.key.thread = t}) <= 1

C18_Witness ==
    /\ demo = "thread_mixed"
    /\ Finished
    /\ \A t \in {MainTid, 1} : \A c \in {"main_exe", "lib_worker"} :
          \E l \in printed : l.thread = t /\ l.ctx = c

\* C19: in the tu_scope binary the inline logger printed by user_a and by
\* user_b is one address, the static logger printed by user_a and by user_b
\* are two addresses, and the binary holds exactly three Logger objects
\* while main runs.
C19_InlineOneStaticPerTU ==
    demo = "tu" =>
        /\ \A x \in AddrsAt("user_a inline"), y \in AddrsAt("user_b inline") :
              x = y
        /\ \A x \in AddrsAt("user_a static"), y \in AddrsAt("user_b static") :
              x # y
        /\ tstate[MainTid] = "running" => Cardinality(objects) = 3

C19_Witness ==
    /\ demo = "tu"
    /\ Finished
    /\ \A c \in {"user_a inline", "user_b inline", "user_a static",
                 "user_b static"} : AddrsAt(c) # {}

\* C20: in the dso_scope demo main, plugin_a and plugin_b print three
\* pairwise different addresses, and three Logger objects, one per module,
\* have been constructed when main runs.
C20_OnePerModule ==
    demo = "dso" =>
        /\ \A c1, c2 \in {"main", "plugin_a", "plugin_b"} :
              c1 # c2 => AddrsAt(c1) \cap AddrsAt(c2) = {}
        /\ \A c \in {"main", "plugin_a", "plugin_b"} :
              Cardinality(AddrsAt(c)) <= 1
        /\ tstate[MainTid] = "running" =>
              /\ Cardinality(objects) = 3
              /\ {o.key.unit : o \in objects} =
                    {"program", "plugin_a", "plugin_b"}

C20_Witness ==
    /\ demo = "dso"
    /\ Finished
    /\ \A c \in {"main", "plugin_a", "plugin_b"} : AddrsAt(c) # {}

C22_FlagMonotonic ==
    /\ [](~region.exists => region.block = ZeroBlock)
    /\ [][/\ region.block.initialized => region'.block.initialized
          /\ (~region.exists /\ region'.exists) =>
                (region'.block = ZeroBlock /\ region'.size = 0)
          /\ \A t \in Threads :
                (/\ pc[t] \in {"shm_open", "ftruncate", "mmap"}
                 /\ pc'[t] # pc[t]
                 /\ region.exists)
                    => region'.block = region.block
       ]_vars

\* A thread whose earlier call on mapper m1 made m1 construct is now inside
\* a second mapper's init_shm_block, past shm_open, ftruncate and mmap,
\* and the flag and m1's payload are still there.
C22_Witness ==
    \E t \in Threads : \E m1, m2 \in Mappers :
        /\ m1 # m2
        /\ ret[t].mapper = m1
        /\ m1 \in casWinners
        /\ ctorBy[m1] = 1
        /\ cur[t] = m2
        /\ pc[t] = "cas"
        /\ mmaps[m2] = 1
        /\ region.block.initialized
        /\ region.block.storage = [constructed |-> TRUE, tag |-> m1]

\* C23 (as claimed): when get_shm_logger returns a reference to a
\* constructed ProcessLogger, the mapper that constructed it belongs to a
\* process that is alive.
C23_PayloadFromLiveProcess ==
    [][\A t \in Threads :
          (/\ pc[t] = "return" /\ pc'[t] = "idle"
           /\ region.block.storage.constructed)
              => alive[ProcOfMapper(region.block.storage.tag)]
    ]_vars

\* C26: the lock file, once there, is never removed; whether a run is
\* admitted or turned away as "already running" is decided by the set of
\* current lock holders alone: a run whose open found the file left behind
\* and unlocked is never turned away unless another run has taken the lock
\* in the meantime, and a run that returns 0 has gone through the section.
C26_HoldersDecide ==
    /\ [](\A g \in Guards :
            /\ guard[g].pc # "open" /\ guard[g].err # "open"
                  => lockFile.exists
            /\ guard[g].code = "0" => guard[g].acquired)
    /\ [][/\ lockFile.exists => lockFile'.exists
          /\ \A g \in Guards :
                (guard[g].pc = "flock" /\ guard'[g].pc # "flock"
                 /\ guard'[g].code # "SIGKILL")
                    => /\ guard'[g].err = "EWOULDBLOCK"
                             => lockFile.holders \ {g} # {}
                       /\ guard'[g].pc = "singleton"
                             => lockFile.holders \ {g} = {}
       ]_vars

C26_Witness ==
    \E g \in Guards :
        /\ guard[g].stale
        /\ guard[g].acquired
        /\ guard[g].code = "0"
        /\ lockFile.exists
        /\ lockFile.holders = {}

\* C24 (as claimed): once g_cached_fn is set no caller performs a dlsym
\* lookup any more, whatever the interleaving; every pointer handed to a
\* caller is the cached one, and every caller gets the same ProcessLogger.
C24_ResolvedOnce ==
    /\ [](\A c \in Callers :
            /\ dpc[c] = "call" => fnp[c] = g_cached_fn
            /\ dret[c] # NoResult =>
                  dret[c] = [fn |-> g_cached_fn, logger |-> g_logger])
    /\ [][\A c \in Callers :
            (dpc[c] = "dlsym" /\ dpc'[c] # "dlsym") => g_cached_fn = NULL
       ]_vars

\* C25: a lookup that does not find the symbol ends the call in the
\* exception: nothing is stored in g_cached_fn, nothing is returned to the
\* caller, no caller ever holds or calls a null pointer, and the next call
\* finds the cache empty and goes to the lookup again.
C25_FailureNotCached ==
    /\ [](\A c \in Callers :
            /\ dpc[c] \in {"store", "call"} => sym[c] # NULL \/ fnp[c] # NULL
            /\ dpc[c] = "call" => fnp[c] = get_process_logger
            /\ dret[c] # NoResult => dret[c].fn = get_process_logger
            /\ throws[c] > 0 => (g_cached_fn = NULL /\ dret[c] = NoResult)
            /\ dlState # "segv")
    /\ [][\A c \in Callers :
            /\ (/\ dpc[c] = "dlsym" /\ ~exported
                /\ dpc'[c] # "dlsym" \/ dlState' # dlState)
                  => /\ g_cached_fn' = g_cached_fn
                     /\ dret' = dret
                     /\ dpc'[c] \in {"idle", "dlsym"}
                     /\ (throws'[c] = throws[c] + 1) \/ (dlState' = "terminate")
            /\ (dpc[c] = "idle" /\ dpc'[c] # "idle" /\ throws[c] > 0)
                  => dpc'[c] = "dlsym"
       ]_vars

\* One caller's lookup has failed twice: its second call looked up again.
C25_Witness ==
    \E c \in Callers :
        /\ throws[c] >= 2
        /\ g_cached_fn = NULL
        /\ dlState = "running"

====
